---- MODULE Spec2Model ----
(***************************************************************************)
(* Model of toml-and-jerry: the `check` command of src/main.rs, the schema *)
(* loader of src/schema.rs and the per-document pipeline validate_inputs   *)
(* of src/validation.rs.                                                   *)
(*                                                                         *)
(* A batch is a list of input documents.  What the file system and the     *)
(* parsing libraries answer for a document (readable or not, the text, the *)
(* parser's verdict and reported position, the outcome of the conversion   *)
(* to a JSON value, the validator's verdict) is part of the document       *)
(* record; the code's reaction to these answers is what the actions model. *)
(***************************************************************************)
EXTENDS Integers, Sequences, FiniteSets, TLC

VARIABLES
  inputs,            \* Vec<PathBuf> handed to validate_inputs, with what each path holds
  pc,                \* position of main: load_schema, validate_inputs, report, exited, panicked
  compiled_schema,   \* "none" until load_and_compile_schema returned Ok
  schema_error,      \* the AppError of a failed schema load, or "none"
  idx,               \* 1-based index of the document the for loop is at
  step,              \* position inside the loop body for document idx
  collected_errors,  \* the Vec<AppError> built by validate_inputs
  trail,             \* per document: the pipeline stages it went through so far
  validated,         \* documents compiled_schema.validate was called on
  report,            \* what validate_inputs returned to main
  has_errors,        \* main's flag
  format,            \* --format argument as read by the output match
  stdout,            \* what main printed as the result
  exit_code          \* process exit status, Running while the process runs

vars == <<inputs, pc, compiled_schema, schema_error, idx, step, collected_errors,
          trail, validated, report, has_errors, format, stdout, exit_code>>

(***************************************************************************)
(* Bounds of the model.                                                    *)
(***************************************************************************)
MaxDocs == 2
UsizeBits == 16

Running == -1
\* Result<Vec<AppError>, AppError> of validate_inputs, once it returned
NoReport == [returned |-> FALSE, errors |-> <<>>]
Ok(errors) == [returned |-> TRUE, errors |-> errors]
NoSpan == <<"None">>
NoLocation == <<"NoLocation">>

\* usize arithmetic: TLC integers are 32 bit wide, the word is scaled down
UsizeMod == 2 ^ UsizeBits
WrappingSub(a, b) == (a - b + UsizeMod) % UsizeMod
WrappingAdd(a, b) == (a + b) % UsizeMod

(***************************************************************************)
(* File contents.  A text is the list of its lines; a line has n bytes of  *)
(* content and a terminator of t bytes (0 none, 1 LF, 2 CRLF).             *)
(***************************************************************************)
EmptyText == <<>>
OneLine == <<[n |-> 2, t |-> 0]>>
LfText == <<[n |-> 1, t |-> 1]>>
CrLfText == <<[n |-> 1, t |-> 2], [n |-> 1, t |-> 0]>>

Texts == {EmptyText, OneLine, LfText, CrLfText}

RECURSIVE ByteLen(_)
\* String::len of the file content
ByteLen(text) ==
  IF text = <<>> THEN 0
  ELSE text[1].n + text[1].t + ByteLen(Tail(text))

\* number of line starts of a text: a terminated last line opens a new, empty line
LastLineNo(text) ==
  IF text = <<>> THEN 1
  ELSE IF text[Len(text)].t > 0 THEN Len(text) + 1 ELSE Len(text)


\* byte length of line l of the text as str::lines yields it (terminator stripped)
LineLen(text, l) == IF l \in 1..Len(text) THEN text[l].n ELSE 0

\* bytes of line l including its terminator
LineWidth(text, l) == IF l \in 1..Len(text) THEN text[l].n + text[l].t ELSE 0

(***************************************************************************)
(* Failure paths.  An instance path is the list of the segments of the     *)
(* JSON pointer the validator reports: "" is <<>>, "/port" is <<"port">>.  *)
(***************************************************************************)
RootPath == <<>>
PortPath == <<"port">>
Paths == {RootPath, PortPath}

(***************************************************************************)
(* TOML documents as toml_edit presents them: an Item is a Table, an       *)
(* ArrayOfTables or a Value (Array, InlineTable, Scalar); span is the      *)
(* Option<Range> the library answers for the node.                         *)
(***************************************************************************)
Range(s, e) == <<s, e>>
ScalarItem(span) == [type |-> "Scalar", span |-> span]
ArrayItem(span) == [type |-> "Array", span |-> span]
InlineTableItem(span) == [type |-> "InlineTable", span |-> span]
ArrayOfTablesItem(span) == [type |-> "ArrayOfTables", span |-> span]
TableItem(span, entries) == [type |-> "Table", span |-> span, entries |-> entries]

\* port = 1
PortTree == TableItem(Range(0, 0), [k \in {"port"} |-> ScalarItem(Range(1, 2))])
\* the same document with the spans dropped by the library
DespannedTree == TableItem(NoSpan, [k \in {"port"} |-> ScalarItem(NoSpan)])
TomlTrees == {PortTree, DespannedTree}

(***************************************************************************)
(* Input documents.                                                        *)
(***************************************************************************)
SupportedExtensions == {"yaml", "yml", "json", "toml", "hcl"}
UnsupportedExtensions == {"xml", "none"}    \* Some(other) and None
Extensions == SupportedExtensions \cup UnsupportedExtensions

BaseDoc ==
  [ext |-> "json", readable |-> TRUE, text |-> OneLine, syntax |-> "ok",
   loc |-> NoLocation, err_span |-> NoSpan, conv |-> TRUE, conforms |-> TRUE,
   instance_path |-> RootPath, root_span |-> Range(0, 2), tree |-> PortTree,
   failure_kind |-> "None", others |-> <<>>]

\* the ValidationErrorKind of the first error the validator finds at path p
KindAt(p) == IF p = RootPath THEN "Required" ELSE "Minimum"

\* fs::read_to_string fails: missing file, directory, text that is not UTF-8
UnreadableDocs ==
  {[BaseDoc EXCEPT !.ext = e, !.readable = FALSE] : e \in {"json", "toml", "xml", "none"}}

\* readable files whose extension no branch of the match handles
UnsupportedDocs == {[BaseDoc EXCEPT !.ext = e] : e \in UnsupportedExtensions}

\* parsed, converted and accepted by the validator
ConformingDocs == {[BaseDoc EXCEPT !.ext = e] : e \in SupportedExtensions}

\* parsed and converted, rejected by the validator with one error at path p
ViolatingDocs ==
  {[BaseDoc EXCEPT !.ext = e, !.conforms = FALSE, !.instance_path = p,
                   !.failure_kind = KindAt(p)] :
      e \in SupportedExtensions \ {"toml"}, p \in Paths}
  \cup
  {[BaseDoc EXCEPT !.ext = "toml", !.conforms = FALSE, !.instance_path = PortPath,
                   !.failure_kind = KindAt(PortPath), !.tree = t] :
      t \in TomlTrees}

\* a document that violates the schema in several places: validate() answers the first
\* violation, others are the further ones iter_errors() would surface
MultiViolationDocs ==
  {[BaseDoc EXCEPT !.ext = e, !.conforms = FALSE, !.instance_path = PortPath,
                   !.failure_kind = "Minimum",
                   !.others = <<[instance_path |-> <<"version">>, failure_kind |-> "Pattern"],
                                [instance_path |-> <<"database">>, failure_kind |-> "Required"]>>] :
      e \in {"json"}}

\* parsed, but the conversion to serde_json::Value failed (hcl parses into the value directly)
ConversionFailureDocs ==
  {[BaseDoc EXCEPT !.ext = e, !.conv = FALSE] : e \in {"yaml", "json", "toml"}}

\* positions serde_json reports: 1-based line, column = bytes consumed on that line,
\* which is 0 when the error is detected at the very start of a line
JsonErrorPositions(text) ==
  {pos \in (1..LastLineNo(text)) \X (0..3) :
      /\ pos[2] <= LineWidth(text, pos[1])
      /\ pos[2] = 0 => (text = EmptyText \/ pos[1] >= 2)}

JsonSyntaxErrorDocs ==
  UNION {{[BaseDoc EXCEPT !.ext = "json", !.syntax = "err", !.text = txt, !.loc = pos] :
            pos \in JsonErrorPositions(txt)} : txt \in Texts}

\* serde_yaml reports no location or a 1-based line and a 1-based column
YamlErrorLocations(text) ==
  {NoLocation} \cup
  {pos \in (1..Len(text)) \X (1..2) : pos[2] <= LineWidth(text, pos[1])}

YamlSyntaxErrorDocs ==
  UNION {{[BaseDoc EXCEPT !.ext = e, !.syntax = "err", !.text = txt, !.loc = pos] :
            pos \in YamlErrorLocations(txt), e \in {"yaml", "yml"}} : txt \in {OneLine, CrLfText}}

\* toml_edit::TomlError::span(): none, a range, or an empty range at the end of the text
TomlSyntaxErrorDocs ==
  {[BaseDoc EXCEPT !.ext = "toml", !.syntax = "err", !.err_span = r] :
      r \in {NoSpan, Range(1, 2), Range(2, 2)}}

\* hcl::Error of a syntax error carries the line and the column of the error
HclSyntaxErrorDocs ==
  {[BaseDoc EXCEPT !.ext = "hcl", !.syntax = "err", !.loc = pos] : pos \in {NoLocation, <<1, 2>>}}

Docs ==
  UnreadableDocs \cup UnsupportedDocs \cup ConformingDocs \cup ViolatingDocs
  \cup MultiViolationDocs
  \cup ConversionFailureDocs \cup JsonSyntaxErrorDocs \cup YamlSyntaxErrorDocs
  \cup TomlSyntaxErrorDocs \cup HclSyntaxErrorDocs

Batches == UNION {[1..n -> Docs] : n \in 1..MaxDocs}

(***************************************************************************)
(* Schema sources and load_and_compile_schema (src/schema.rs).             *)
(***************************************************************************)
SchemaSources ==
  [url : BOOLEAN, utf8_path : BOOLEAN, fetched : BOOLEAN, read : BOOLEAN,
   parses : BOOLEAN, compiles : BOOLEAN]

load_and_compile_schema(src) ==
  IF src.url /\ ~src.utf8_path THEN "InvalidSchemaPath"
  ELSE IF src.url /\ ~src.fetched THEN "SchemaFetchError"
  ELSE IF ~src.url /\ ~src.read THEN "FileReadError"
  ELSE IF ~src.parses THEN "SchemaParseError"
  ELSE IF ~src.compiles THEN "SchemaCompileError"
  ELSE "Ok"

(***************************************************************************)
(* Diagnostics (src/error.rs) and spans.                                   *)
(***************************************************************************)
NoPath == <<"NoInstancePath">>
SourceSpan(offset, length) == <<offset, length>>

AppError(kind, path, span, instance_path) ==
  [kind |-> kind, path |-> path, span |-> span, instance_path |-> instance_path]

\* AppError::SchemaValidationError with the validator's path and kind
SchemaValidationError(path, span, instance_path, failure_kind) ==
  [kind |-> "SchemaValidationError", path |-> path, span |-> span,
   instance_path |-> instance_path, failure_kind |-> failure_kind]

ParseErrorKinds == {"YamlParseError", "JsonParseError", "TomlParseError", "HclParseError"}

\* the variant each branch of the extension match pushes for a parse failure
ParseErrorOf(ext) ==
  CASE ext \in {"yaml", "yml"} -> "YamlParseError"
    [] ext = "json" -> "JsonParseError"
    [] ext = "toml" -> "TomlParseError"
    [] ext = "hcl" -> "HclParseError"

\* SourceSpan::new(0.into(), file_content.len().into())
WholeDocumentSpan(text) == SourceSpan(0, ByteLen(text))

convert_json_span(span_tuple) ==
  LET start == span_tuple[1]
      end == span_tuple[2]
  IN SourceSpan(start, IF end > start THEN end - start ELSE 1)

\* variant of find_span_for_json_path: the root element is answered with None
find_span_for_json_path_NoRoot(root_span, path) ==
  IF path = <<>> \/ path = <<"">> THEN NoSpan
  ELSE root_span

find_span_for_json_path(root_span, path) ==
  IF path = <<>> \/ path = <<"">> THEN root_span
  ELSE root_span

convert_toml_edit_span(toml_span) ==
  IF toml_span = NoSpan THEN NoSpan
  ELSE SourceSpan(toml_span[1],
                  IF toml_span[2] > toml_span[1] THEN toml_span[2] - toml_span[1] ELSE 1)

\* segment.parse::<usize>().ok()
ParsesAsUsize(segment) == segment \in {"0", "1", "2", "7"}

RECURSIVE WalkTomlPath(_, _)
WalkTomlPath(current_item, segments) ==
  IF segments = <<>> THEN current_item.span
  ELSE CASE current_item.type = "Table" ->
              IF segments[1] \in DOMAIN current_item.entries
              THEN WalkTomlPath(current_item.entries[segments[1]], Tail(segments))
              ELSE NoSpan
         [] current_item.type = "ArrayOfTables" ->
              IF ParsesAsUsize(segments[1]) THEN current_item.span ELSE NoSpan
         [] current_item.type = "Array" ->
              IF ParsesAsUsize(segments[1]) THEN current_item.span ELSE NoSpan
         [] current_item.type = "InlineTable" -> current_item.span
         [] OTHER -> NoSpan

\* variant of find_span_for_toml_path: a walk that finds nothing answers with the root span
find_span_for_toml_path_RootOnMiss(current_item, path) ==
  IF path = <<>> \/ path = <<"">> THEN current_item.span
  ELSE IF WalkTomlPath(current_item, path) = NoSpan THEN current_item.span
  ELSE WalkTomlPath(current_item, path)

find_span_for_toml_path(current_item, path) ==
  IF path = <<>> \/ path = <<"">> THEN current_item.span
  ELSE WalkTomlPath(current_item, path)

\* lines 222-225 and 278-281: offset of the start of the reported line
RECURSIVE LineStartOffset(_, _, _)
LineStartOffset(text, line, i) ==
  IF i > Len(text) \/ ~(i - 1 < line - 1) THEN 0
  ELSE WrappingAdd(text[i].n + 1, LineStartOffset(text, line, i + 1))

(***************************************************************************)
(* Initial state: the process was started with `check <inputs> --schema`.  *)
(***************************************************************************)
Init ==
  /\ inputs \in Batches
  /\ pc = "load_schema"
  /\ compiled_schema = "none"
  /\ schema_error = "none"
  /\ idx = 1
  /\ step = "Reading"
  /\ collected_errors = <<>>
  /\ trail = [i \in DOMAIN inputs |-> <<>>]
  /\ validated = {}
  /\ report = NoReport
  /\ has_errors = FALSE
  /\ format = "unread"
  /\ stdout = "none"
  /\ exit_code = Running

doc == inputs[idx]

InLoop(at) == pc = "validate_inputs" /\ idx <= Len(inputs) /\ step = at

Went(stages) == trail' = [trail EXCEPT ![idx] = @ \o stages]

\* variant of PushAndContinue: the diagnostic is inserted at the front of the list
PushFrontAndContinue(e) ==
  /\ collected_errors' = <<e>> \o collected_errors
  /\ idx' = idx + 1
  /\ step' = "Reading"

\* collected_errors.push(e); continue (or the end of the loop body)
PushAndContinue(e) ==
  /\ collected_errors' = Append(collected_errors, e)
  /\ idx' = idx + 1
  /\ step' = "Reading"

\* the loop body ends without a diagnostic
Continue ==
  /\ collected_errors' = collected_errors
  /\ idx' = idx + 1
  /\ step' = "Reading"

\* an arithmetic overflow check fails: the thread panics and the process dies
Panic ==
  /\ pc' = "panicked"
  /\ exit_code' = 101
  /\ UNCHANGED <<idx, step, collected_errors, trail>>

MainUnchanged == UNCHANGED <<inputs, compiled_schema, schema_error, report, has_errors, format, stdout>>

\* variant of LoadSchema: the load error is printed but the batch is started anyway
LoadSchema_ContinuesOnError ==
  /\ pc = "load_schema"
  /\ \E src \in SchemaSources :
       LET result == load_and_compile_schema(src) IN
       IF result = "Ok"
       THEN /\ compiled_schema' = "compiled"
            /\ pc' = "validate_inputs"
            /\ UNCHANGED <<schema_error, exit_code>>
       ELSE /\ schema_error' = result
            /\ pc' = "validate_inputs"
            /\ UNCHANGED <<compiled_schema, exit_code>>
  /\ UNCHANGED <<inputs, idx, step, collected_errors, trail, validated, report,
                 has_errors, format, stdout>>

(***************************************************************************)
(* main, lines 88-96: load the schema or exit(1).                          *)
(***************************************************************************)
LoadSchema ==
  /\ pc = "load_schema"
  /\ \E src \in SchemaSources :
       LET result == load_and_compile_schema(src) IN
       IF result = "Ok"
       THEN /\ compiled_schema' = "compiled"
            /\ pc' = "validate_inputs"
            /\ UNCHANGED <<schema_error, exit_code>>
       ELSE /\ schema_error' = result
            /\ exit_code' = 1
            /\ pc' = "exited"
            /\ UNCHANGED compiled_schema
  /\ UNCHANGED <<inputs, idx, step, collected_errors, trail, validated, report,
                 has_errors, format, stdout>>

(***************************************************************************)
(* validate_inputs, lines 172-183: read the file.                          *)
(***************************************************************************)
ReadFile ==
  /\ InLoop("Reading")
  /\ IF doc.readable
     THEN /\ step' = "Dispatch"
          /\ Went(<<"Reading">>)
          /\ UNCHANGED <<idx, collected_errors>>
     ELSE /\ PushAndContinue(AppError("FileReadError", idx, NoSpan, NoPath))
          /\ Went(<<"Reading", "Done">>)
  /\ UNCHANGED <<pc, exit_code, validated>>
  /\ MainUnchanged

\* variant of SkipUnsupported: the skipped file is reported as a diagnostic
SkipUnsupported_Reports ==
  /\ InLoop("Dispatch")
  /\ doc.ext \notin SupportedExtensions
  /\ PushAndContinue(AppError("FileReadError", idx, NoSpan, NoPath))
  /\ Went(<<"Skipped", "Done">>)
  /\ UNCHANGED <<pc, exit_code, validated>>
  /\ MainUnchanged

\* lines 400-405: Some(ext) of no supported format, or None
SkipUnsupported ==
  /\ InLoop("Dispatch")
  /\ doc.ext \notin SupportedExtensions
  /\ Continue
  /\ Went(<<"Skipped", "Done">>)
  /\ UNCHANGED <<pc, exit_code, validated>>
  /\ MainUnchanged

Parsed ==
  /\ step' = "Canonicalizing"
  /\ Went(<<"Parsing", "Parsed">>)
  /\ UNCHANGED <<idx, collected_errors>>

\* variant of ParseFailed: the parse failure is dropped instead of collected
ParseFailed_Dropped(span) ==
  /\ Continue
  /\ Went(<<"Parsing", "ParseFailed", "Done">>)

ParseFailed(span) ==
  /\ PushAndContinue(AppError(ParseErrorOf(doc.ext), idx, span, NoPath))
  /\ Went(<<"Parsing", "ParseFailed", "Done">>)

\* lines 186-187 and 220-237
ParseYaml ==
  /\ InLoop("Dispatch")
  /\ doc.ext \in {"yaml", "yml"}
  /\ IF doc.syntax = "ok" THEN Parsed
     ELSE IF doc.loc # NoLocation
     THEN LET offset == WrappingAdd(LineStartOffset(doc.text, doc.loc[1], 1), doc.loc[2] - 1)
          IN ParseFailed(SourceSpan(offset, 1))
     ELSE ParseFailed(WholeDocumentSpan(doc.text))
  /\ UNCHANGED <<pc, exit_code, validated>>
  /\ MainUnchanged

\* lines 240-241 and 277-291
ParseJson ==
  /\ InLoop("Dispatch")
  /\ doc.ext = "json"
  /\ IF doc.syntax = "ok"
     THEN Parsed /\ UNCHANGED <<pc, exit_code>>
     ELSE LET line == doc.loc[1]
              column == doc.loc[2]
              offset == WrappingAdd(LineStartOffset(doc.text, line, 1), WrappingSub(column, 1))
          IN IF column - 1 < 0
             THEN \* `column - 1` overflows: a panic with overflow checks, a wrap without
                  \/ Panic
                  \/ ParseFailed(SourceSpan(offset, 1)) /\ UNCHANGED <<pc, exit_code>>
             ELSE ParseFailed(SourceSpan(offset, 1)) /\ UNCHANGED <<pc, exit_code>>
  /\ UNCHANGED validated
  /\ MainUnchanged

\* lines 294-296 and 354-366
ParseToml ==
  /\ InLoop("Dispatch")
  /\ doc.ext = "toml"
  /\ IF doc.syntax = "ok" THEN Parsed
     ELSE ParseFailed(IF doc.err_span # NoSpan
                      THEN convert_toml_edit_span(doc.err_span)
                      ELSE WholeDocumentSpan(doc.text))
  /\ UNCHANGED <<pc, exit_code, validated>>
  /\ MainUnchanged

\* lines 369-371 and 389-397: hcl::from_str parses straight into the JSON value
ParseHcl ==
  /\ InLoop("Dispatch")
  /\ doc.ext = "hcl"
  /\ IF doc.syntax = "ok"
     THEN /\ step' = "Validating"
          /\ Went(<<"Parsing", "Parsed", "Canonicalizing">>)
          /\ UNCHANGED <<idx, collected_errors>>
     ELSE ParseFailed(WholeDocumentSpan(doc.text))
  /\ UNCHANGED <<pc, exit_code, validated>>
  /\ MainUnchanged

\* variant of Canonicalize: the span is taken from the content of the previous document
Canonicalize_StaleContent ==
  /\ InLoop("Canonicalizing")
  /\ IF doc.conv
     THEN /\ step' = "Validating"
          /\ Went(<<"Canonicalizing">>)
          /\ UNCHANGED <<idx, collected_errors>>
     ELSE /\ PushAndContinue(AppError(ParseErrorOf(doc.ext), idx,
                                      WholeDocumentSpan(inputs[IF idx > 1 THEN idx - 1 ELSE idx].text),
                                      NoPath))
          /\ Went(<<"Canonicalizing", "ConversionFailed", "Done">>)
  /\ UNCHANGED <<pc, exit_code, validated>>
  /\ MainUnchanged

\* lines 189-201, 245-257, 301-326: the parsed document as serde_json::Value
Canonicalize ==
  /\ InLoop("Canonicalizing")
  /\ IF doc.conv
     THEN /\ step' = "Validating"
          /\ Went(<<"Canonicalizing">>)
          /\ UNCHANGED <<idx, collected_errors>>
     ELSE /\ PushAndContinue(AppError(ParseErrorOf(doc.ext), idx, WholeDocumentSpan(doc.text), NoPath))
          /\ Went(<<"Canonicalizing", "ConversionFailed", "Done">>)
  /\ UNCHANGED <<pc, exit_code, validated>>
  /\ MainUnchanged

\* variant of ErrorSpan: no whole-document span when the resolver finds nothing
ErrorSpan_NoFallback(d) ==
  CASE d.ext = "json" ->
         LET target_jspan == find_span_for_json_path(d.root_span, d.instance_path)
         IN IF target_jspan # NoSpan THEN convert_json_span(target_jspan)
            ELSE NoSpan
    [] d.ext = "toml" ->
         convert_toml_edit_span(find_span_for_toml_path(d.tree, d.instance_path))
    [] OTHER -> WholeDocumentSpan(d.text)

\* variant of ErrorSpan: the JSON branch walks the failure path as the TOML branch does
ErrorSpan_JsonWalks(d) ==
  CASE d.ext \in {"json", "toml"} ->
         LET target_toml_span_range == find_span_for_toml_path(d.tree, d.instance_path)
             target_miette_span == convert_toml_edit_span(target_toml_span_range)
         IN IF target_miette_span # NoSpan THEN target_miette_span
            ELSE WholeDocumentSpan(d.text)
    [] OTHER -> WholeDocumentSpan(d.text)

\* the span each branch attaches to a validation failure
ErrorSpan(d) ==
  CASE d.ext = "json" ->
         LET target_jspan == find_span_for_json_path(d.root_span, d.instance_path)
         IN IF target_jspan # NoSpan THEN convert_json_span(target_jspan)
            ELSE WholeDocumentSpan(d.text)
    [] d.ext = "toml" ->
         LET target_toml_span_range == find_span_for_toml_path(d.tree, d.instance_path)
             target_miette_span == convert_toml_edit_span(target_toml_span_range)
         IN IF target_miette_span # NoSpan THEN target_miette_span
            ELSE WholeDocumentSpan(d.text)
    [] OTHER -> WholeDocumentSpan(d.text)

\* variant of Validate: a failure at the document root is not collected
Validate_DropsRootFailures ==
  /\ InLoop("Validating")
  /\ compiled_schema = "compiled"
  /\ validated' = validated \cup {idx}
  /\ IF doc.conforms
     THEN /\ Continue
          /\ Went(<<"Validating", "Valid", "Done">>)
     ELSE /\ IF doc.instance_path = <<>>
             THEN Continue
             ELSE PushAndContinue(SchemaValidationError(idx, ErrorSpan(doc), doc.instance_path,
                                                        doc.failure_kind))
          /\ Went(<<"Validating", "ValidationFailed", "Done">>)
  /\ UNCHANGED <<pc, exit_code>>
  /\ MainUnchanged

\* lines 202-218, 259-275, 327-352, 373-387: compiled_schema.validate(&value)
\* variant of Validate: every violation the validator finds is collected
Validate_AllViolations ==
  /\ InLoop("Validating")
  /\ compiled_schema = "compiled"
  /\ validated' = validated \cup {idx}
  /\ IF doc.conforms
     THEN /\ Continue
          /\ Went(<<"Validating", "Valid", "Done">>)
     ELSE /\ collected_errors' =
               Append(collected_errors,
                      SchemaValidationError(idx, ErrorSpan(doc), doc.instance_path,
                                            doc.failure_kind))
               \o [b \in DOMAIN doc.others |->
                     SchemaValidationError(idx, ErrorSpan(doc), doc.others[b].instance_path,
                                           doc.others[b].failure_kind)]
          /\ idx' = idx + 1
          /\ step' = "Reading"
          /\ Went(<<"Validating", "ValidationFailed", "Done">>)
  /\ UNCHANGED <<pc, exit_code>>
  /\ MainUnchanged

\* variant of Validate: the validator answers with any one of the violations
Validate_AnyViolation ==
  /\ InLoop("Validating")
  /\ compiled_schema = "compiled"
  /\ validated' = validated \cup {idx}
  /\ IF doc.conforms
     THEN /\ Continue
          /\ Went(<<"Validating", "Valid", "Done">>)
     ELSE /\ \E v \in {[instance_path |-> doc.instance_path, failure_kind |-> doc.failure_kind]}
                       \cup {doc.others[b] : b \in DOMAIN doc.others} :
               PushAndContinue(SchemaValidationError(idx, ErrorSpan(doc), v.instance_path,
                                                     v.failure_kind))
          /\ Went(<<"Validating", "ValidationFailed", "Done">>)
  /\ UNCHANGED <<pc, exit_code>>
  /\ MainUnchanged

Validate ==
  /\ InLoop("Validating")
  /\ compiled_schema = "compiled"
  /\ validated' = validated \cup {idx}
  /\ IF doc.conforms
     THEN /\ Continue
          /\ Went(<<"Validating", "Valid", "Done">>)
     ELSE /\ PushAndContinue(SchemaValidationError(idx, ErrorSpan(doc), doc.instance_path,
                                                        doc.failure_kind))
          /\ Went(<<"Validating", "ValidationFailed", "Done">>)
  /\ UNCHANGED <<pc, exit_code>>
  /\ MainUnchanged

\* line 408: Ok(collected_errors)
Return ==
  /\ pc = "validate_inputs"
  /\ idx > Len(inputs)
  /\ report' = Ok(collected_errors)
  /\ pc' = "report"
  /\ UNCHANGED <<inputs, compiled_schema, schema_error, idx, step, collected_errors,
                 trail, validated, has_errors, format, stdout, exit_code>>

(***************************************************************************)
(* main, lines 99-168: print the report in the requested format and exit.  *)
(***************************************************************************)
Formats == {"human", "json", "sarif", "yaml"}

FileErrorKinds ==
  ParseErrorKinds \cup {"FileReadError", "SchemaValidationError"}

SchemaErrorKinds ==
  {"SchemaFetchError", "SchemaParseError", "SchemaCompileError", "InvalidSchemaPath"}

\* #[diagnostic(code(...))] of each variant
DiagnosticCode(kind) ==
  CASE kind = "FileReadError" -> "app::io::read_file"
    [] kind = "SchemaFetchError" -> "app::network::fetch_schema"
    [] kind = "SchemaParseError" -> "app::schema::parse_error"
    [] kind = "SchemaCompileError" -> "app::schema::compile_error"
    [] kind = "YamlParseError" -> "app::yaml::parse_error"
    [] kind = "SchemaValidationError" -> "app::schema::validation_error"
    [] kind = "JsonParseError" -> "app::json::parse_error"
    [] kind = "TomlParseError" -> "app::toml::parse_error"
    [] kind = "HclParseError" -> "app::hcl::parse_error"
    [] kind = "InvalidSchemaPath" -> "app::schema::invalid_path"

\* Texts are sequences of pieces; the piece ":" is a colon.  The input at an even
\* position of the batch has a colon in its name.
FileName(path) == IF path % 2 = 0 THEN <<"c", ":", "cfg">> ELSE <<"cfg">>
SchemaSourceName(source) ==
  IF source = "url" THEN <<"https", ":", "//host/schema.json">> ELSE <<"schema.json">>

\* {:?} of a path or of a string
DebugText(text) == <<"\"">> \o text \o <<"\"">>

\* Display of AppError: the #[error("...")] text of each variant
DisplayText(app_error) ==
  LET kind == app_error.kind
      in_file(prefix, tail) ==
        <<prefix>> \o DebugText(FileName(app_error.path)) \o <<":", " ", tail>>
  IN CASE kind = "FileReadError" -> in_file("Failed to read file ", "source")
       [] kind = "YamlParseError" -> in_file("YAML parsing error in file ", "message")
       [] kind = "SchemaValidationError" -> in_file("Schema validation error in file ", "message")
       [] kind = "JsonParseError" -> in_file("JSON parsing error in file ", "message")
       [] kind = "TomlParseError" -> in_file("TOML parsing error in file ", "message")
       [] kind = "HclParseError" -> in_file("HCL parsing error in file ", "message")
       [] kind = "SchemaFetchError" ->
            <<"Failed to fetch schema from URL ">> \o SchemaSourceName(app_error.path)
              \o <<":", " ", "source">>
       [] kind = "SchemaParseError" ->
            <<"Failed to parse schema (from ">> \o DebugText(SchemaSourceName(app_error.path))
              \o <<")", ":", " ", "source">>
       [] kind = "SchemaCompileError" ->
            <<"Failed to compile schema (from ">> \o DebugText(SchemaSourceName(app_error.path))
              \o <<")", ":", " ", "source">>
       [] kind = "InvalidSchemaPath" ->
            <<"Invalid schema path", ":", " ">> \o SchemaSourceName(app_error.path)

\* str::split_once(':'): the text before the first colon, None when there is no colon
RECURSIVE split_once(_)
split_once(text) ==
  IF text = <<>> THEN "None"
  ELSE IF Head(text) = ":" THEN <<>>
  ELSE LET rest == split_once(Tail(text))
       IN IF rest = "None" THEN "None" ELSE <<Head(text)>> \o rest

\* variant of PrintableError: json_path is filled in for every variant that has a file
PrintableError_PathForAll(app_error) ==
  [file_path |-> app_error.path,
   error_type |-> LET et == split_once(DisplayText(app_error))
                  IN IF et = "None" THEN <<"UnknownError">> ELSE et,
   message |-> DisplayText(app_error),
   line |-> "None",
   column |-> "None",
   json_path |-> IF app_error.kind \in FileErrorKinds
                 THEN <<"Some", app_error.instance_path>> ELSE <<"None">>,
   rule_id |-> DiagnosticCode(app_error.kind)]

PrintableError(app_error) ==
  [file_path |-> app_error.path,
   error_type |-> LET et == split_once(DisplayText(app_error))
                  IN IF et = "None" THEN <<"UnknownError">> ELSE et,
   message |-> DisplayText(app_error),
   line |-> "None",
   column |-> "None",
   json_path |-> IF app_error.kind = "SchemaValidationError"
                 THEN <<"Some", app_error.instance_path>> ELSE <<"None">>,
   rule_id |-> DiagnosticCode(app_error.kind)]

\* variant of Printed: the JSON array holds the first entry of the report only
Printed_FirstOnly(fmt, errors) ==
  IF errors # <<>>
  THEN CASE fmt = "json" -> [out |-> "json", items |-> <<PrintableError(errors[1])>>]
         [] fmt = "sarif" -> [out |-> "sarif", items |-> <<>>]
         [] OTHER -> [out |-> "summary", items |-> errors]
  ELSE CASE fmt = "json" -> [out |-> "json", items |-> <<>>]
         [] fmt = "sarif" -> [out |-> "sarif", items |-> <<>>]
         [] OTHER -> [out |-> "all valid", items |-> <<>>]

Printed(fmt, errors) ==
  IF errors # <<>>
  THEN CASE fmt = "json" -> [out |-> "json", items |-> [i \in DOMAIN errors |-> PrintableError(errors[i])]]
         [] fmt = "sarif" -> [out |-> "sarif", items |-> <<>>]
         [] OTHER -> [out |-> "summary", items |-> errors]
  ELSE CASE fmt = "json" -> [out |-> "json", items |-> <<>>]
         [] fmt = "sarif" -> [out |-> "sarif", items |-> <<>>]
         [] OTHER -> [out |-> "all valid", items |-> <<>>]

\* variant of Output: has_errors follows what was printed, not the report
Output_FlagFromPrinted ==
  /\ pc = "report"
  /\ \E fmt \in Formats :
       /\ format' = fmt
       /\ stdout' = Printed(fmt, report.errors)
  /\ has_errors' = (stdout'.items # <<>>)
  /\ exit_code' = IF has_errors' THEN 1 ELSE 0
  /\ pc' = "exited"
  /\ UNCHANGED <<inputs, compiled_schema, schema_error, idx, step, collected_errors,
                 trail, validated, report>>

Output ==
  /\ pc = "report"
  /\ \E fmt \in Formats :
       /\ format' = fmt
       /\ stdout' = Printed(fmt, report.errors)
  /\ has_errors' = (report.errors # <<>>)
  /\ exit_code' = IF has_errors' THEN 1 ELSE 0
  /\ pc' = "exited"
  /\ UNCHANGED <<inputs, compiled_schema, schema_error, idx, step, collected_errors,
                 trail, validated, report>>

Next ==
  \/ LoadSchema
  \/ ReadFile
  \/ SkipUnsupported
  \/ ParseYaml
  \/ ParseJson
  \/ ParseToml
  \/ ParseHcl
  \/ Canonicalize
  \/ Validate
  \/ Return
  \/ Output

Spec == Init /\ [][Next]_vars

(***************************************************************************)
(* Span resolution on richer documents: one-document batches whose         *)
(* document is a nested structure with every kind of node, checked against *)
(* a schema the document violates at some failure path.                    *)
(***************************************************************************)
MaxPathLen == 2

\* Some(range) when the library kept the span of the node, None when it did not
Kept(range, spanned) == IF spanned THEN range ELSE NoSpan

ArrayWith(span, entries) == [type |-> "Array", span |-> span, entries |-> entries]
InlineTableWith(span, entries) == [type |-> "InlineTable", span |-> span, entries |-> entries]
ArrayOfTablesWith(span, entries) == [type |-> "ArrayOfTables", span |-> span, entries |-> entries]

\* [database] host = "h" / port = 50 / "a/b" = 1 / tags = [1] / opts = {a = 1} / [[servers]] a = 1
\* as one line of 60 bytes and its line feed; an array and an array of tables hold their elements under "0"
NestedTree(spanned) ==
  TableItem(Kept(Range(0, 60), spanned),
    [k \in {"database", "port", "a/b", "tags", "opts", "servers"} |->
       CASE k = "database" ->
              TableItem(Kept(Range(0, 10), spanned),
                        [h \in {"host"} |-> ScalarItem(Kept(Range(18, 21), spanned))])
         [] k = "port" -> ScalarItem(Kept(Range(29, 31), spanned))
         [] k = "a/b" -> ScalarItem(Kept(Range(34, 35), spanned))
         [] k = "tags" ->
              ArrayWith(Kept(Range(38, 41), spanned),
                        [e \in {"0"} |-> ScalarItem(Kept(Range(39, 40), spanned))])
         [] k = "opts" ->
              InlineTableWith(Kept(Range(44, 51), spanned),
                              [a \in {"a"} |-> ScalarItem(Kept(Range(49, 50), spanned))])
         [] k = "servers" ->
              ArrayOfTablesWith(Kept(Range(52, 60), spanned),
                                [e \in {"0"} |->
                                   TableItem(Kept(Range(52, 60), spanned),
                                             [a \in {"a"} |-> ScalarItem(Kept(Range(58, 59), spanned))])])])

NestedText == <<[n |-> 60, t |-> 1]>>

\* {"port": 50}
PortFiftyTree == TableItem(Range(0, 12), [k \in {"port"} |-> ScalarItem(Range(9, 11))])
PortFiftyText == <<[n |-> 12, t |-> 0]>>

\* keys and indices a failure path is made of
PathKeys == {"database", "port", "host", "a/b", "tags", "opts", "servers", "a", "0", "7", "x", ""}

FailurePaths == UNION {[1..n -> PathKeys] : n \in 0..MaxPathLen}

\* Location::to_string of the validator: a JSON pointer, "~" and "/" escaped in each segment
Escape(key) == IF key = "a/b" THEN "a~1b" ELSE key
Unescape(segment) == IF segment = "a~1b" THEN "a/b" ELSE segment
PointerOf(failure_path) == [i \in DOMAIN failure_path |-> Escape(failure_path[i])]
KeysOf(pointer) == [i \in DOMAIN pointer |-> Unescape(pointer[i])]

NestedDocs ==
  {[BaseDoc EXCEPT !.ext = e, !.text = NestedText, !.conforms = FALSE,
                   !.instance_path = PointerOf(p), !.failure_kind = "Type",
                   !.tree = NestedTree(TRUE), !.root_span = Range(0, 60)] :
      e \in SupportedExtensions, p \in FailurePaths}
  \cup
  {[BaseDoc EXCEPT !.ext = "toml", !.text = NestedText, !.conforms = FALSE,
                   !.instance_path = PointerOf(p), !.failure_kind = "Type",
                   !.tree = NestedTree(FALSE)] :
      p \in FailurePaths}

PortFiftyDoc ==
  [BaseDoc EXCEPT !.ext = "json", !.text = PortFiftyText, !.conforms = FALSE,
                  !.instance_path = PortPath, !.failure_kind = "Minimum",
                  !.tree = PortFiftyTree, !.root_span = Range(0, 12)]

SpanDocs == NestedDocs \cup {PortFiftyDoc} \cup Docs

SpanInit ==
  /\ inputs \in [1..1 -> SpanDocs]
  /\ pc = "load_schema"
  /\ compiled_schema = "none"
  /\ schema_error = "none"
  /\ idx = 1
  /\ step = "Reading"
  /\ collected_errors = <<>>
  /\ trail = [i \in DOMAIN inputs |-> <<>>]
  /\ validated = {}
  /\ report = NoReport
  /\ has_errors = FALSE
  /\ format = "unread"
  /\ stdout = "none"
  /\ exit_code = Running

SpanSpec == SpanInit /\ [][Next]_vars

(***************************************************************************)
(* One logical structure written in several formats.  A logical value is a *)
(* mapping with the key `name`; each format's parser yields its own value  *)
(* type for the scalar, and each arm converts that to serde_json::Value.   *)
(* The schema asks for `name` to be a string.                              *)
(***************************************************************************)
LogicalValues ==
  {[name |-> <<"string", "x">>], [name |-> <<"integer", "1">>], [name |-> <<"boolean", "true">>]}

\* the variant of the format's own value type the parser yields for a scalar
ParsedAs(ext, scalar) ==
  CASE ext \in {"yaml", "yml"} ->
         (CASE scalar[1] = "string" -> <<"serde_yaml::Value::String", scalar[2]>>
            [] scalar[1] = "integer" -> <<"serde_yaml::Value::Number", scalar[2]>>
            [] scalar[1] = "boolean" -> <<"serde_yaml::Value::Bool", scalar[2]>>)
    [] ext = "toml" ->
         (CASE scalar[1] = "string" -> <<"toml::Value::String", scalar[2]>>
            [] scalar[1] = "integer" -> <<"toml::Value::Integer", scalar[2]>>
            [] scalar[1] = "boolean" -> <<"toml::Value::Boolean", scalar[2]>>)
    [] OTHER ->
         (CASE scalar[1] = "string" -> <<"serde_json::Value::String", scalar[2]>>
            [] scalar[1] = "integer" -> <<"serde_json::Value::Number", scalar[2]>>
            [] scalar[1] = "boolean" -> <<"serde_json::Value::Bool", scalar[2]>>)

\* variant of ToJsonValue: the YAML arm turns every scalar into a JSON string
ToJsonValue_YamlAsText(native) ==
  CASE native[1] \in {"serde_yaml::Value::String", "serde_yaml::Value::Number",
                      "serde_yaml::Value::Bool", "toml::Value::String"} ->
         <<"serde_json::Value::String", native[2]>>
    [] native[1] = "toml::Value::Integer" -> <<"serde_json::Value::Number", native[2]>>
    [] native[1] = "toml::Value::Boolean" -> <<"serde_json::Value::Bool", native[2]>>
    [] OTHER -> native

\* serde_yaml::from_value, serde_json::to_value(toml::Value): the scalar as serde_json::Value
ToJsonValue(native) ==
  CASE native[1] \in {"serde_yaml::Value::String", "toml::Value::String"} ->
         <<"serde_json::Value::String", native[2]>>
    [] native[1] \in {"serde_yaml::Value::Number", "toml::Value::Integer"} ->
         <<"serde_json::Value::Number", native[2]>>
    [] native[1] \in {"serde_yaml::Value::Bool", "toml::Value::Boolean"} ->
         <<"serde_json::Value::Bool", native[2]>>
    [] OTHER -> native

\* compiled_schema.validate for {"properties": {"name": {"type": "string"}}}
NameIsString(json_value) == json_value.name[1] = "serde_json::Value::String"

JsonValueOf(ext, value) == [name |-> ToJsonValue(ParsedAs(ext, value.name))]

EncodedDoc(ext, value) ==
  LET ok == NameIsString(JsonValueOf(ext, value))
  IN [BaseDoc EXCEPT !.ext = ext, !.conforms = ok,
                     !.instance_path = IF ok THEN RootPath ELSE <<"name">>,
                     !.failure_kind = IF ok THEN "None" ELSE "Type"]
       @@ [value |-> value]

EncodedDocs == {EncodedDoc(e, v) : e \in SupportedExtensions, v \in LogicalValues}

FormatBatches ==
  [1..1 -> Docs] \cup UNION {[1..n -> EncodedDocs] : n \in 1..MaxDocs}

FormatInit ==
  /\ inputs \in FormatBatches
  /\ pc = "load_schema"
  /\ compiled_schema = "none"
  /\ schema_error = "none"
  /\ idx = 1
  /\ step = "Reading"
  /\ collected_errors = <<>>
  /\ trail = [i \in DOMAIN inputs |-> <<>>]
  /\ validated = {}
  /\ report = NoReport
  /\ has_errors = FALSE
  /\ format = "unread"
  /\ stdout = "none"
  /\ exit_code = Running

FormatSpec == FormatInit /\ [][Next]_vars

(***************************************************************************)
(* validate_inputs called a second time with the same inputs and the same  *)
(* compiled schema, as a caller holding the first report may do: the       *)
(* function starts again from a fresh `collected_errors`.                  *)
(***************************************************************************)
Rerun ==
  /\ pc = "report"
  /\ pc' = "validate_inputs"
  /\ idx' = 1
  /\ step' = "Reading"
  /\ collected_errors' = <<>>
  /\ trail' = [i \in DOMAIN inputs |-> <<>>]
  /\ validated' = {}
  /\ UNCHANGED <<inputs, compiled_schema, schema_error, report, has_errors, format,
                 stdout, exit_code>>

TwiceNext == Next \/ Rerun

\* one document of each outcome the loop body has
TwiceDocs ==
  MultiViolationDocs
  \cup {[BaseDoc EXCEPT !.ext = "xml"],
        [BaseDoc EXCEPT !.readable = FALSE],
        [BaseDoc EXCEPT !.ext = "toml"],
        [BaseDoc EXCEPT !.ext = "toml", !.conforms = FALSE, !.instance_path = PortPath,
                        !.failure_kind = KindAt(PortPath)],
        [BaseDoc EXCEPT !.ext = "yaml", !.conv = FALSE],
        [BaseDoc EXCEPT !.ext = "yaml", !.syntax = "err", !.text = CrLfText, !.loc = <<2, 1>>],
        [BaseDoc EXCEPT !.ext = "json", !.syntax = "err", !.text = EmptyText, !.loc = <<1, 0>>],
        [BaseDoc EXCEPT !.ext = "hcl", !.syntax = "err", !.loc = <<1, 2>>]}

TwiceInit ==
  /\ inputs \in [1..1 -> Docs] \cup UNION {[1..n -> TwiceDocs] : n \in 1..MaxDocs}
  /\ pc = "load_schema"
  /\ compiled_schema = "none"
  /\ schema_error = "none"
  /\ idx = 1
  /\ step = "Reading"
  /\ collected_errors = <<>>
  /\ trail = [i \in DOMAIN inputs |-> <<>>]
  /\ validated = {}
  /\ report = NoReport
  /\ has_errors = FALSE
  /\ format = "unread"
  /\ stdout = "none"
  /\ exit_code = Running

TwiceSpec == TwiceInit /\ [][TwiceNext]_vars

(***************************************************************************)
(* Batches in which a document can stand alone, first, last or between     *)
(* other documents of any outcome.                                         *)
(***************************************************************************)
MixedBatches == [1..1 -> Docs] \cup UNION {[1..n -> TwiceDocs] : n \in 1..(MaxDocs + 1)}

MixedInit ==
  /\ inputs \in MixedBatches
  /\ pc = "load_schema"
  /\ compiled_schema = "none"
  /\ schema_error = "none"
  /\ idx = 1
  /\ step = "Reading"
  /\ collected_errors = <<>>
  /\ trail = [i \in DOMAIN inputs |-> <<>>]
  /\ validated = {}
  /\ report = NoReport
  /\ has_errors = FALSE
  /\ format = "unread"
  /\ stdout = "none"
  /\ exit_code = Running

MixedSpec == MixedInit /\ [][Next]_vars

(***************************************************************************)
(* PrintableError::from applied to every variant of AppError: the report   *)
(* handed to the printing code is any list of diagnostics.                 *)
(***************************************************************************)
AllErrors ==
  {AppError(k, path, NoSpan, NoPath) : k \in {"FileReadError"}, path \in 1..2}
  \cup {AppError(k, path, SourceSpan(0, 1), NoPath) : k \in ParseErrorKinds, path \in 1..2}
  \cup {SchemaValidationError(path, SourceSpan(0, 1), p, KindAt(p)) : path \in 1..2, p \in Paths}
  \cup {AppError(k, source, NoSpan, NoPath) : k \in SchemaErrorKinds, source \in {"file", "url"}}

PrintInit ==
  /\ report \in {Ok(errors) : errors \in UNION {[1..n -> AllErrors] : n \in 1..MaxDocs}}
  /\ pc = "report"
  /\ inputs = [i \in 1..MaxDocs |-> BaseDoc]
  /\ compiled_schema = "compiled"
  /\ schema_error = "none"
  /\ idx = MaxDocs + 1
  /\ step = "Reading"
  /\ collected_errors = report.errors
  /\ trail = [i \in DOMAIN inputs |-> <<>>]
  /\ validated = {}
  /\ has_errors = FALSE
  /\ format = "unread"
  /\ stdout = "none"
  /\ exit_code = Running

PrintNext == Output

PrintSpec == PrintInit /\ [][PrintNext]_vars

(***************************************************************************)
(* Vocabulary of the properties.                                           *)
(***************************************************************************)
Terminated == pc \in {"exited", "panicked"}

\* the process ended after the schema was loaded and compiled
BatchEnded == Terminated /\ compiled_schema = "compiled"

\* the diagnostics a list holds for document j
EntriesOf(errors, j) == SelectSeq(errors, LAMBDA e : e.path = j)

HasEntry(errors, j, kind) == \E a \in DOMAIN errors : errors[a].path = j /\ errors[a].kind = kind

\* document j left the loop body
Processed(j) == j \in DOMAIN inputs /\ j < idx

Unreadable(d) == ~d.readable
Unsupported(d) == d.ext \notin SupportedExtensions
Malformed(d) == d.readable /\ d.ext \in SupportedExtensions /\ d.syntax = "err"
WellFormed(d) == d.readable /\ d.ext \in SupportedExtensions /\ d.syntax = "ok"
HasCanonicalValue(d) == WellFormed(d) /\ (d.conv \/ d.ext = "hcl")
NonConformant(d) == HasCanonicalValue(d) /\ ~d.conforms
Conformant(d) == HasCanonicalValue(d) /\ d.conforms

\* what one document, taken alone, contributes to a report: the kinds of its diagnostics
OutcomeAlone(d) ==
  IF Unreadable(d) THEN <<"FileReadError">>
  ELSE IF Unsupported(d) THEN <<>>
  ELSE IF Malformed(d) \/ ~HasCanonicalValue(d) THEN <<ParseErrorOf(d.ext)>>
  ELSE IF NonConformant(d) THEN <<"SchemaValidationError">>
  ELSE <<>>

KindsOf(errors) == [a \in DOMAIN errors |-> errors[a].kind]

ReachedDone(j) == trail[j] # <<>> /\ trail[j][Len(trail[j])] = "Done"
Passed(j, stage) == \E a \in DOMAIN trail[j] : trail[j][a] = stage

(***************************************************************************)
(* C1  Batch continuation: when some document k of the batch is unreadable *)
(* or malformed, the batch still ends with a returned report in which each *)
(* of the N documents has its outcome, and the outcome of every other      *)
(* document is the one it has when taken alone.                            *)
(***************************************************************************)
C1_BatchContinuation ==
  BatchEnded =>
    \A k \in DOMAIN inputs :
      (Unreadable(inputs[k]) \/ Malformed(inputs[k])) =>
        /\ report # NoReport
        /\ \A j \in DOMAIN inputs : ReachedDone(j)
        /\ \A j \in DOMAIN inputs \ {k} :
             KindsOf(EntriesOf(report.errors, j)) = OutcomeAlone(inputs[j])

(***************************************************************************)
(* C2  The batch always completes: validate_inputs returns Ok with the     *)
(* collected report for every list of inputs, it processed the whole list, *)
(* and every failure of a document is an entry of the report.              *)
(***************************************************************************)
C2_AlwaysCompletes ==
  BatchEnded =>
    /\ report # NoReport
    /\ idx = Len(inputs) + 1
    /\ \A j \in DOMAIN inputs :
         OutcomeAlone(inputs[j]) # <<>> => EntriesOf(report.errors, j) # <<>>

(***************************************************************************)
(* C3  Report ordering: in the list being collected and in the returned    *)
(* report an entry of document i precedes every entry of document j when   *)
(* i < j.                                                                  *)
(***************************************************************************)
InInputOrder(errors) ==
  \A a, b \in DOMAIN errors : a < b => errors[a].path <= errors[b].path

C3_ReportOrdering ==
  /\ InInputOrder(collected_errors)
  /\ InInputOrder(report.errors)

C3_Witness ==
  /\ pc = "exited"
  /\ report # NoReport
  /\ Len(report.errors) = 2
  /\ report.errors[1].path = 1
  /\ report.errors[2].path = 2
  /\ report.errors[1].kind # report.errors[2].kind

(***************************************************************************)
(* C4  Per-document state machine: the stages of a document occur in the   *)
(* order Reading, Parsing, ParseFailed or Parsed, Canonicalizing,          *)
(* Validating, ValidationFailed or Valid, Done; a read failure goes from   *)
(* Reading to Done with exactly one FileReadError and the document is      *)
(* neither parsed nor validated; the validator is called on a document     *)
(* only after it was read, parsed and canonicalized; and when the batch    *)
(* has ended every document has reached Done.                              *)
(***************************************************************************)
StageRank(stage) ==
  CASE stage = "Reading" -> 1
    [] stage = "Parsing" -> 2
    [] stage \in {"ParseFailed", "Parsed"} -> 3
    [] stage = "Canonicalizing" -> 4
    [] stage = "Validating" -> 5
    [] stage \in {"ValidationFailed", "Valid"} -> 6
    [] stage = "Done" -> 7
    [] OTHER -> 0

InStageOrder(t) ==
  \A a, b \in DOMAIN t :
    (a < b /\ StageRank(t[a]) > 0 /\ StageRank(t[b]) > 0) => StageRank(t[a]) < StageRank(t[b])

C4_StateMachine ==
  /\ \A j \in DOMAIN inputs : InStageOrder(trail[j])
  /\ \A j \in DOMAIN inputs :
       (Unreadable(inputs[j]) /\ trail[j] # <<>>) =>
          /\ trail[j] = <<"Reading", "Done">>
          /\ KindsOf(EntriesOf(collected_errors, j)) = <<"FileReadError">>
          /\ j \notin validated
  /\ \A j \in validated :
       /\ HasCanonicalValue(inputs[j])
       /\ Passed(j, "Reading") /\ Passed(j, "Parsed") /\ Passed(j, "Canonicalizing")
  /\ BatchEnded => \A j \in DOMAIN inputs : ReachedDone(j)

(***************************************************************************)
(* C5  A document has at most one parse failure or validation failures,    *)
(* never both; a malformed document of a supported format, once the loop   *)
(* is through with it, has exactly one parse failure of the variant of its *)
(* format and no SchemaValidationError.                                    *)
(***************************************************************************)
\* the loop body of document j is over, by continuing or by dying in it
Over(j) == Processed(j) \/ (pc = "panicked" /\ j = idx)

ParseEntries(j) == SelectSeq(collected_errors, LAMBDA e : e.path = j /\ e.kind \in ParseErrorKinds)

C5_ParseOrValidation ==
  \A j \in DOMAIN inputs :
    /\ Len(ParseEntries(j)) <= 1
    /\ ~(ParseEntries(j) # <<>> /\ HasEntry(collected_errors, j, "SchemaValidationError"))
    /\ (Malformed(inputs[j]) /\ Over(j)) =>
          KindsOf(EntriesOf(collected_errors, j)) = <<ParseErrorOf(inputs[j].ext)>>

(***************************************************************************)
(* C6  For a readable, syntactically valid document of a supported format  *)
(* that the loop is through with, the collected list holds a               *)
(* SchemaValidationError of that document exactly when its canonical value *)
(* does not conform to the schema; a conforming document has no entry.     *)
(***************************************************************************)
C6_ValidationErrorIffNonConformant ==
  \A j \in DOMAIN inputs :
    (Processed(j) /\ WellFormed(inputs[j])) =>
       /\ HasEntry(collected_errors, j, "SchemaValidationError") <=> NonConformant(inputs[j])
       /\ Conformant(inputs[j]) => EntriesOf(collected_errors, j) = <<>>
       /\ report.returned => EntriesOf(report.errors, j) = EntriesOf(collected_errors, j)

C6_Witness ==
  /\ report.returned
  /\ \E j \in DOMAIN inputs :
       NonConformant(inputs[j]) /\ HasEntry(report.errors, j, "SchemaValidationError")
  /\ \E j \in DOMAIN inputs :
       Conformant(inputs[j]) /\ j \in validated /\ EntriesOf(report.errors, j) = <<>>

(***************************************************************************)
(* C7  Overall outcome: when main has run to its exit, the status is       *)
(* non-zero exactly when the schema failed to load or compile or the       *)
(* returned report holds at least one diagnostic; an empty report gives    *)
(* status 0, whatever the output format.  However the process ends, its    *)
(* status is non-zero exactly when the schema failed or some document of   *)
(* the batch is unreadable, malformed, not convertible or non-conformant.  *)
(***************************************************************************)
C7_ExitStatus ==
  /\ pc = "exited" =>
       /\ exit_code # Running
       /\ exit_code # 0 <=> (schema_error # "none" \/ report.errors # <<>>)
       /\ (report.returned /\ report.errors = <<>>) => exit_code = 0
  /\ Terminated =>
       (exit_code # 0 <=>
          (schema_error # "none" \/ \E j \in DOMAIN inputs : OutcomeAlone(inputs[j]) # <<>>))

C7_Witness ==
  /\ pc = "exited"
  /\ format = "sarif"
  /\ report.errors # <<>>
  /\ exit_code = 1

(***************************************************************************)
(* C8  The batch succeeds (exit status 0) exactly when every document      *)
(* reached Done via Valid.                                                 *)
(***************************************************************************)
C8_SuccessIffAllValid ==
  Terminated =>
    (exit_code = 0 <=> \A j \in DOMAIN inputs : ReachedDone(j) /\ Passed(j, "Valid"))

(***************************************************************************)
(* C8 as amended: the batch succeeds exactly when every document reached   *)
(* Done via Valid or was skipped for its unsupported or missing extension. *)
(***************************************************************************)
C8_SuccessIffAllValidOrSkipped ==
  Terminated =>
    (exit_code = 0 <=>
       \A j \in DOMAIN inputs :
          ReachedDone(j) /\ (Passed(j, "Valid") \/ Passed(j, "Skipped")))

C8_Witness ==
  /\ pc = "exited"
  /\ exit_code = 0
  /\ \E j \in DOMAIN inputs : Passed(j, "Skipped")
  /\ \E j \in DOMAIN inputs : Passed(j, "Valid")

(***************************************************************************)
(* C9  A schema load or compile failure is fatal and comes first: as long  *)
(* as no schema is compiled no input was read, parsed or validated and     *)
(* nothing was collected or returned, and after a failed load the process  *)
(* has exited with a non-zero status without printing a report.            *)
(***************************************************************************)
C9_SchemaFailureIsFatal ==
  /\ compiled_schema = "none" =>
       /\ \A j \in DOMAIN inputs : trail[j] = <<>>
       /\ validated = {}
       /\ collected_errors = <<>>
       /\ ~report.returned
  /\ schema_error # "none" =>
       /\ compiled_schema = "none"
       /\ pc = "exited"
       /\ exit_code \notin {0, Running}
       /\ stdout = "none"

C9_Witness ==
  /\ schema_error = "SchemaCompileError"
  /\ pc = "exited"
  /\ exit_code = 1

(***************************************************************************)
(* C10  An input whose extension is unsupported or missing never adds an   *)
(* entry to the list validate_inputs collects.                             *)
(***************************************************************************)
C10_UnsupportedNeverReported ==
  \A j \in DOMAIN inputs :
    Unsupported(inputs[j]) => EntriesOf(collected_errors, j) = <<>>

(***************************************************************************)
(* C10 as amended: an input whose extension is unsupported or missing and  *)
(* that could be read adds no entry; one that could not be read adds       *)
(* exactly one FileReadError, like any other unreadable input.             *)
(***************************************************************************)
C10_ReadableUnsupportedNeverReported ==
  \A j \in DOMAIN inputs :
    Unsupported(inputs[j]) =>
       /\ inputs[j].readable => EntriesOf(collected_errors, j) = <<>>
       /\ (~inputs[j].readable /\ Processed(j)) =>
             KindsOf(EntriesOf(collected_errors, j)) = <<"FileReadError">>
       /\ j \notin validated

C10_Witness ==
  /\ report.returned
  /\ report.errors # <<>>
  /\ \E j \in DOMAIN inputs :
       /\ Unsupported(inputs[j])
       /\ inputs[j].readable
       /\ Passed(j, "Skipped")
       /\ EntriesOf(report.errors, j) = <<>>

(***************************************************************************)
(* C11  A skipped document is distinguishable in the value returned to the *)
(* caller: what the returned list holds for a document skipped for its     *)
(* unsupported or missing extension differs from what it holds for a       *)
(* document that was validated and found valid.                            *)
(***************************************************************************)
C11_SkippedDistinguishable ==
  report.returned =>
    \A j, k \in DOMAIN inputs :
      (Passed(j, "Skipped") /\ Passed(k, "Valid")) =>
         KindsOf(EntriesOf(report.errors, j)) # KindsOf(EntriesOf(report.errors, k))

(***************************************************************************)
(* The span the design asks for: walk the failure path from the root,      *)
(* descend into the value of a present key and into the element of a valid *)
(* index, stop at the first segment that cannot be followed and take the   *)
(* span of the node reached last.                                          *)
(***************************************************************************)
RECURSIVE NearestSpan(_, _)
NearestSpan(node, keys) ==
  IF keys = <<>> THEN node.span
  ELSE IF "entries" \in DOMAIN node /\ keys[1] \in DOMAIN node.entries
       THEN NearestSpan(node.entries[keys[1]], Tail(keys))
       ELSE node.span

\* the validation failure collected for document j
ValidationEntries(j) ==
  SelectSeq(collected_errors, LAMBDA e : e.path = j /\ e.kind = "SchemaValidationError")

(***************************************************************************)
(* C12  Span resolution follows the failure path: for a document of any    *)
(* supported format whose nodes have spans, the span of its validation     *)
(* failure is the span of the node the path leads to, or of the last node  *)
(* reached when a segment cannot be followed.                              *)
(***************************************************************************)
C12_ResolvesToNearestNode ==
  \A j \in DOMAIN inputs :
    \A a \in DOMAIN ValidationEntries(j) :
      LET d == inputs[j]
          nearest == NearestSpan(d.tree, KeysOf(d.instance_path))
      IN (d \in NestedDocs /\ nearest # NoSpan) =>
            ValidationEntries(j)[a].span = convert_toml_edit_span(nearest)

IsRootPath(path) == path = <<>> \/ path = <<"">>
RootNodeSpan(d) == IF d.ext = "json" THEN d.root_span ELSE d.tree.span

(***************************************************************************)
(* C13  Empty failure path: when the failure path of a JSON or TOML        *)
(* document is empty (or "/"), the span of its validation failure is the   *)
(* span of the root node of the document.                                  *)
(***************************************************************************)
C13_EmptyPathIsRootSpan ==
  \A j \in DOMAIN inputs :
    \A a \in DOMAIN ValidationEntries(j) :
      LET d == inputs[j]
          root == RootNodeSpan(d)
      IN (d.ext \in {"json", "toml"} /\ IsRootPath(d.instance_path)
            /\ root # NoSpan /\ root[2] > root[1]) =>
           ValidationEntries(j)[a].span = SourceSpan(root[1], root[2] - root[1])

\* the JSON resolver answered the path "/" on a document whose root is not the whole text
C13_Witness ==
  \E a \in DOMAIN collected_errors :
    LET d == inputs[collected_errors[a].path]
    IN /\ collected_errors[a].kind = "SchemaValidationError"
       /\ d.ext = "json" /\ d.instance_path = <<"">>
       /\ collected_errors[a].span # WholeDocumentSpan(d.text)

\* the resolver of the format found nothing for the failure path of the document
ResolverFoundNothing(d) ==
  \/ d.ext = "toml" /\ find_span_for_toml_path(d.tree, d.instance_path) = NoSpan
  \/ d.ext \in {"yaml", "yml", "hcl"}

(***************************************************************************)
(* C14  Non-fatal degradation: every parsed document that violates the     *)
(* schema leaves the loop with its validation failure whatever its failure *)
(* path; every validation failure carries a span, and the span is  *)
(* the whole document [0, len) when the resolver found nothing.            *)
(***************************************************************************)
C14_SpanResolutionDegrades ==
  \A j \in DOMAIN inputs :
    LET d == inputs[j] IN
    /\ (Processed(j) /\ NonConformant(d)) =>
          /\ ValidationEntries(j) # <<>>
          /\ ReachedDone(j)
    /\ \A a \in DOMAIN ValidationEntries(j) :
          /\ ValidationEntries(j)[a].span # NoSpan
          /\ ResolverFoundNothing(d) => ValidationEntries(j)[a].span = WholeDocumentSpan(d.text)

\* a TOML document whose failure path names an absent key was reported
C14_Witness ==
  \E j \in DOMAIN inputs :
    /\ inputs[j].ext = "toml"
    /\ inputs[j].tree.span # NoSpan
    /\ find_span_for_toml_path(inputs[j].tree, inputs[j].instance_path) = NoSpan
    /\ ValidationEntries(j) # <<>>
    /\ ReachedDone(j)

(***************************************************************************)
(* C15  {"port": 50} against a schema with port minimum 1024: the report   *)
(* holds exactly one validation failure for the document, with path        *)
(* ["port"], a numeric bound violation, whose span covers exactly the      *)
(* literal 50 (offset 9, length 2), not the enclosing object.              *)
(***************************************************************************)
C15_PortFiftyExample ==
  \A j \in DOMAIN inputs :
    (Processed(j) /\ inputs[j] = PortFiftyDoc) =>
       EntriesOf(collected_errors, j) =
         <<SchemaValidationError(j, SourceSpan(9, 2), PortPath, "Minimum")>>

\* the byte offset of the start of line `line` in the raw text
RECURSIVE TrueLineStart(_, _)
TrueLineStart(text, line) ==
  IF line <= 1 THEN 0 ELSE LineWidth(text, line - 1) + TrueLineStart(text, line - 1)

\* the byte a (line, column) position names: column c >= 1 is the c-th byte of the
\* line, column 0 is the start of the line before any byte of it was read
TrueOffset(text, pos) == TrueLineStart(text, pos[1]) + (IF pos[2] >= 1 THEN pos[2] - 1 ELSE 0)

\* the parser of the document reported where the syntax error is
PositionReported(d) == IF d.ext = "toml" THEN d.err_span # NoSpan ELSE d.loc # NoLocation

ReportedOffset(d) == IF d.ext = "toml" THEN d.err_span[1] ELSE TrueOffset(d.text, d.loc)

(***************************************************************************)
(* C16  Best-effort span of a parse failure: for a malformed JSON, YAML,   *)
(* TOML or HCL document the span of its parse error starts at the byte the *)
(* parser reported when it reported a position, and is the whole document  *)
(* [0, len) only when it reported none.                                    *)
(***************************************************************************)
C16_ParseFailureSpan ==
  \A j \in DOMAIN inputs :
    LET d == inputs[j] IN
    (Processed(j) /\ Malformed(d)) =>
       \A a \in DOMAIN ParseEntries(j) :
          IF PositionReported(d)
          THEN ParseEntries(j)[a].span[1] = ReportedOffset(d)
          ELSE ParseEntries(j)[a].span = WholeDocumentSpan(d.text)

EmptyJson(d) == d.readable /\ d.ext = "json" /\ d.text = EmptyText

(***************************************************************************)
(* C17  An empty input declared as JSON: the document is processed, the    *)
(* report holds exactly one JsonParseError for it and nothing else, and    *)
(* the span of that entry is offset 0, length 0.                           *)
(***************************************************************************)
C17_EmptyJsonInput ==
  \A j \in DOMAIN inputs :
    EmptyJson(inputs[j]) =>
       /\ Processed(j) =>
            EntriesOf(collected_errors, j) =
              <<AppError("JsonParseError", j, SourceSpan(0, 0), NoPath)>>
       /\ ~(pc = "panicked" /\ idx = j)

(***************************************************************************)
(* C18  Offset reconstruction: when the JSON or YAML parser reports a      *)
(* (line, column) with column >= 1, the offset of the parse error is the   *)
(* sum of the byte lengths of the lines before it, each with the width of  *)
(* its terminator (1 for LF, 2 for CRLF), plus the column: the true byte   *)
(* offset of the position in the raw text.                                 *)
(***************************************************************************)
C18_OffsetReconstruction ==
  \A j \in DOMAIN inputs :
    LET d == inputs[j] IN
    (Processed(j) /\ Malformed(d) /\ d.ext \in {"json", "yaml", "yml"}
       /\ d.loc # NoLocation /\ d.loc[2] >= 1) =>
       \A a \in DOMAIN ParseEntries(j) :
          ParseEntries(j)[a].span = SourceSpan(TrueOffset(d.text, d.loc), 1)

(***************************************************************************)
(* C19  No truncation at the first error: a document that violates the     *)
(* schema in several places has one validation failure in the report for   *)
(* each violation the validator can surface.                               *)
(***************************************************************************)
C19_AllViolationsReported ==
  \A j \in DOMAIN inputs :
    LET d == inputs[j] IN
    (Processed(j) /\ NonConformant(d)) =>
       /\ Len(ValidationEntries(j)) = 1 + Len(d.others)
       /\ \A b \in DOMAIN d.others :
            \E a \in DOMAIN ValidationEntries(j) :
               /\ ValidationEntries(j)[a].instance_path = d.others[b].instance_path
               /\ ValidationEntries(j)[a].failure_kind = d.others[b].failure_kind

(***************************************************************************)
(* C20  Canonicalization is total: a document that reached Parsed never    *)
(* fails in the conversion to the canonical value and never has a          *)
(* diagnostic from that step in the report.                                *)
(***************************************************************************)
C20_CanonicalizationTotal ==
  \A j \in DOMAIN inputs :
    Passed(j, "Parsed") =>
       /\ ~Passed(j, "ConversionFailed")
       /\ ParseEntries(j) = <<>>

\* document j is one of the encodings of a logical value
Encodes(j) == j \in DOMAIN inputs /\ "value" \in DOMAIN inputs[j]

\* what the report says about document j, spans apart
OutcomeOf(j) ==
  LET entries == EntriesOf(collected_errors, j)
  IN [a \in DOMAIN entries |-> <<entries[a].kind, entries[a].instance_path>>]

SecondRun == pc = "validate_inputs" /\ report.returned

IsPrefix(short, long) ==
  /\ Len(short) <= Len(long)
  /\ \A a \in DOMAIN short : short[a] = long[a]

Contribution(j) ==
  LET entries == EntriesOf(collected_errors, j)
  IN [a \in DOMAIN entries |-> [entries[a] EXCEPT !.path = 0]]

\* a step of the loop leaves alone everything that belongs to the documents it is not at
OtherDocumentsUntouched ==
  \A j \in DOMAIN inputs :
    j # idx => /\ EntriesOf(collected_errors', j) = EntriesOf(collected_errors, j)
               /\ trail'[j] = trail[j]

(***************************************************************************)
(* C23  Document independence: the compiled schema is never modified once  *)
(* compiled, the inputs are never modified, a step of the pipeline changes *)
(* nothing that belongs to another document, and the same document         *)
(* contributes the same entries at every position of a batch (the first    *)
(* position being the document processed with nothing before it).          *)
(***************************************************************************)
C23_DocumentIndependence ==
  /\ [](\A j, k \in DOMAIN inputs :
          (Processed(j) /\ Processed(k) /\ inputs[j] = inputs[k]) =>
             Contribution(j) = Contribution(k))
  /\ [][/\ compiled_schema = "compiled" => compiled_schema' = "compiled"
        /\ inputs' = inputs
        /\ OtherDocumentsUntouched]_vars

\* a document with a diagnostic was processed first and again after a different document
C23_Witness ==
  /\ Len(inputs) = 3
  /\ idx > 3
  /\ inputs[1] = inputs[3]
  /\ inputs[2] # inputs[1]
  /\ inputs[2].text # inputs[1].text
  /\ Contribution(1) # <<>>
  /\ Contribution(2) # <<>>
  /\ Contribution(3) = Contribution(1)

\* the process printed the report as a JSON array and exited
PrintedAsJson == pc = "exited" /\ report.returned /\ format = "json"

InvalidInputs == {j \in DOMAIN inputs : OutcomeAlone(inputs[j]) # <<>>}

(***************************************************************************)
(* C24  --format json: the printed array has one element for each entry of *)
(* the report, in the order of the report, each with filePath, errorType,  *)
(* message and ruleId; two invalid inputs give at least two elements; an   *)
(* empty report is printed as the empty array "[]".                        *)
(***************************************************************************)
C24_JsonArrayMirrorsReport ==
  PrintedAsJson =>
     /\ stdout.out = "json"
     /\ Len(stdout.items) = Len(report.errors)
     /\ \A a \in DOMAIN stdout.items :
          /\ {"file_path", "error_type", "message", "rule_id"} \subseteq DOMAIN stdout.items[a]
          /\ stdout.items[a].file_path = report.errors[a].path
          /\ stdout.items[a].rule_id = DiagnosticCode(report.errors[a].kind)
     /\ Cardinality(InvalidInputs) >= 2 => Len(stdout.items) >= 2
     /\ report.errors = <<>> => stdout.items = <<>>

\* two invalid inputs were printed as an array of two elements, in input order
C24_Witness ==
  /\ PrintedAsJson
  /\ Cardinality(InvalidInputs) = 2
  /\ Len(stdout.items) = 2
  /\ stdout.items[1].file_path = 1
  /\ stdout.items[2].file_path = 2

\* the text before the first colon of a text that has one
BeforeFirstColon(text) ==
  LET first == CHOOSE a \in DOMAIN text :
                 text[a] = ":" /\ \A b \in 1..(a - 1) : text[b] # ":"
  IN SubSeq(text, 1, first - 1)

OffsetInIntegers(text, pos) ==
  LET SumBefore[i \in 0..Len(text)] ==
        IF i = 0 THEN 0
        ELSE SumBefore[i - 1] + (IF i - 1 < pos[1] - 1 THEN text[i].n + 1 ELSE 0)
  IN SumBefore[Len(text)] + pos[2] - 1

(***************************************************************************)
(* C26  No underflow: for every position the JSON or YAML parser can       *)
(* report, column 0 included, the offset computation of the parse-error    *)
(* branch neither aborts the process nor wraps: the offset of the entry is *)
(* the value of the same sum in the integers.                              *)
(***************************************************************************)
C26_OffsetNeverUnderflows ==
  /\ \A j \in DOMAIN inputs :
       LET d == inputs[j] IN
       (Malformed(d) /\ d.ext \in {"json", "yaml", "yml"} /\ d.loc # NoLocation) =>
          /\ ~(pc = "panicked" /\ idx = j /\ step = "Dispatch")
          /\ \A a \in DOMAIN ParseEntries(j) :
               ParseEntries(j)[a].span[1] = OffsetInIntegers(d.text, d.loc)

(***************************************************************************)
(* C27  Spans lie inside the source text: for every diagnostic with a span *)
(* offset + length <= byte length of the content of its file, for parse    *)
(* failures and for validation failures.                                   *)
(***************************************************************************)
C27_SpansInsideSource ==
  \A a \in DOMAIN collected_errors :
    LET e == collected_errors[a] IN
    e.span # NoSpan => e.span[1] + e.span[2] <= ByteLen(inputs[e.path].text)

AsOffsetAndLength(range) ==
  SourceSpan(range[1], IF range[2] > range[1] THEN range[2] - range[1] ELSE 1)

(***************************************************************************)
(* C29  Path-independent spans: the span of a validation failure of a JSON *)
(* document is the span of the root value and that of a YAML or HCL        *)
(* document is the whole document [0, len), whatever the failure path.     *)
(***************************************************************************)
C29_SpanIgnoresPath ==
  \A j \in DOMAIN inputs :
    \A a \in DOMAIN ValidationEntries(j) :
      LET d == inputs[j] IN
      /\ d.ext = "json" => ValidationEntries(j)[a].span = AsOffsetAndLength(d.root_span)
      /\ d.ext \in {"yaml", "yml", "hcl"} =>
           ValidationEntries(j)[a].span = SourceSpan(0, ByteLen(d.text))

\* a JSON failure two segments deep got the root span although the node has its own
C29_Witness ==
  \E j \in DOMAIN inputs :
    LET d == inputs[j] IN
    /\ d.ext = "json"
    /\ d.instance_path = <<"database", "host">>
    /\ ValidationEntries(j) # <<>>
    /\ ValidationEntries(j)[1].span = SourceSpan(0, 60)
    /\ NearestSpan(d.tree, d.instance_path) = Range(18, 21)

\* what the walk over a TOML document answers, told from the kinds of the nodes
RECURSIVE AggregateWalk(_, _)
AggregateWalk(node, segments) ==
  IF segments = <<>> THEN node.span
  ELSE CASE node.type = "Table" ->
              IF segments[1] \in DOMAIN node.entries
              THEN AggregateWalk(node.entries[segments[1]], Tail(segments))
              ELSE NoSpan
         [] node.type \in {"ArrayOfTables", "Array"} ->
              IF segments[1] \in {"0", "7"} THEN node.span ELSE NoSpan
         [] node.type = "InlineTable" -> node.span
         [] node.type = "Scalar" -> NoSpan

(***************************************************************************)
(* C30  TOML span resolution at aggregates: a numeric segment at an array  *)
(* of tables or an array, in range or not, and any segment at an inline    *)
(* table, give the span of the whole aggregate whatever follows; a missing *)
(* key, a non-numeric segment at an array and a segment at a scalar give   *)
(* nothing, and the entry then has the whole-document span.                *)
(***************************************************************************)
C30_TomlAggregateSpans ==
  \A j \in DOMAIN inputs :
    \A a \in DOMAIN ValidationEntries(j) :
      LET d == inputs[j]
          found == AggregateWalk(d.tree, d.instance_path)
      IN (d.ext = "toml" /\ d \in NestedDocs /\ ~IsRootPath(d.instance_path)) =>
           ValidationEntries(j)[a].span =
             IF found # NoSpan THEN AsOffsetAndLength(found)
             ELSE SourceSpan(0, ByteLen(d.text))

\* an index out of range at an array gave the span of the array
C30_Witness ==
  \E j \in DOMAIN inputs :
    /\ inputs[j].ext = "toml"
    /\ inputs[j].instance_path = <<"tags", "7">>
    /\ ValidationEntries(j) # <<>>
    /\ ValidationEntries(j)[1].span = SourceSpan(38, 3)

TypeOK ==
  /\ pc \in {"load_schema", "validate_inputs", "report", "exited", "panicked"}
  /\ idx \in 1..(Len(inputs) + 1)
  /\ Len(collected_errors) <= Len(inputs)

====
